---- MODULE Spec2Model ----
(***************************************************************************)
(* Model of src/api.rs of bp-esplora-client: the Esplora wire records, the *)
(* witness deserializer and the three methods of `impl Tx` (to_tx,         *)
(* confirmation_time, previous_outputs).                                   *)
(***************************************************************************)
EXTENDS Integers, Sequences, FiniteSets, TLC

VARIABLES
    wire,        \* the JSON `witness` field of the input being deserialized
    self,        \* the Tx record the methods are called on
    alt,         \* a second, independently owned Tx record
    tx_result,   \* value returned by the last self.to_tx()
    ct_result,   \* value returned by the last self.confirmation_time()
    po_result,   \* value returned by the last self.previous_outputs()
    alt_result,  \* operation and value of the last call made on alt
    de_result    \* value returned by the deserialization of `wire`

vars == <<wire, self, alt, tx_result, ct_result, po_result, alt_result, de_result>>

----------------------------------------------------------------------------
(* Bounds of the model *)

MaxVin == 3
MaxVout == 3
MaxWitness == 2
MaxHexLen == 2
MaxCallVin == 2
ConfinedMax == 2

----------------------------------------------------------------------------
(* Rust values *)

None == [some |-> FALSE]
Some(v) == [some |-> TRUE, val |-> v]
Ok(v) == [tag |-> "Ok", val |-> v]
Err(e) == [tag |-> "Err", err |-> e]
NotCalled == [tag |-> "NotCalled"]
Returned(v) == [tag |-> "Returned", val |-> v]
NoRecord == [tag |-> "NoRecord"]
NoWire == [tag |-> "NoWire"]

SeqsUpTo(S, n) == UNION {[1..k -> S] : k \in 0..n}

----------------------------------------------------------------------------
(* Hex decoding of one witness element: Vec::<u8>::from_hex *)

HexDigits == {"0", "1", "2", "3", "4", "5", "6", "7", "8", "9",
              "a", "b", "c", "d", "e", "f", "A", "B", "C", "D", "E", "F"}

HexVal(c) ==
    CASE c = "0" -> 0 [] c = "1" -> 1 [] c = "2" -> 2 [] c = "3" -> 3
      [] c = "4" -> 4 [] c = "5" -> 5 [] c = "6" -> 6 [] c = "7" -> 7
      [] c = "8" -> 8 [] c = "9" -> 9
      [] c \in {"a", "A"} -> 10 [] c \in {"b", "B"} -> 11
      [] c \in {"c", "C"} -> 12 [] c \in {"d", "D"} -> 13
      [] c \in {"e", "E"} -> 14 [] c \in {"f", "F"} -> 15

\* a string is the sequence of its characters
\* (variant: the odd-length check is missing and the last character dropped)
from_hex_ignores_odd_length(hex_str) ==
    IF \E i \in 1..Len(hex_str) : hex_str[i] \notin HexDigits
    THEN Err("HexDecodeError")
    ELSE Ok([k \in 1..(Len(hex_str) \div 2) |->
                16 * HexVal(hex_str[2 * k - 1]) + HexVal(hex_str[2 * k])])

from_hex(hex_str) ==
    IF Len(hex_str) % 2 = 1 THEN Err("HexDecodeError")
    ELSE IF \E i \in 1..Len(hex_str) : hex_str[i] \notin HexDigits
    THEN Err("HexDecodeError")
    ELSE Ok([k \in 1..(Len(hex_str) \div 2) |->
                16 * HexVal(hex_str[2 * k - 1]) + HexVal(hex_str[2 * k])])

\* .map(from_hex).collect::<Result<Vec<Vec<u8>>, _>>(): the first failing
\* element aborts the collection, otherwise the decoded elements in order
RECURSIVE collect_result(_)
collect_result(list) ==
    IF list = <<>> THEN Ok(<<>>)
    ELSE LET head == from_hex(Head(list))
         IN  IF head.tag = "Err" THEN head
             ELSE LET rest == collect_result(Tail(list))
                  IN  IF rest.tag = "Err" THEN rest
                      ELSE Ok(<<head.val>> \o rest.val)

\* the wire field is a JSON value: null, or an array of strings
deserialize_witness(d) ==
    IF d.tag = "Null" THEN Err("InvalidType")
    ELSE collect_result(d.list)

\* (variant: without `default`, a missing field is a deserialization error)
Vin_witness_without_default(w) ==
    IF w.tag = "Absent" THEN Err("MissingField")
    ELSE deserialize_witness(w)

\* #[serde(deserialize_with = "deserialize_witness", default)]
Vin_witness(w) ==
    IF w.tag = "Absent" THEN Ok(<<>>)
    ELSE deserialize_witness(w)

----------------------------------------------------------------------------
(* bp types built by to_tx *)

\* Outpoint::new(txid, vout)
Outpoint_new(txid, vout) == [txid |-> txid, vout |-> vout]

\* TxVer::from_consensus_i32, LockTime::from_consensus_u32,
\* SeqNo::from_consensus_u32, Sats::from(u64): newtypes over the raw number
TxVer_from_consensus_i32(v) == [TxVer |-> v]
LockTime_from_consensus_u32(v) == [LockTime |-> v]
SeqNo_from_consensus_u32(v) == [SeqNo |-> v]
Sats_from(v) == [Sats |-> v]

\* Witness::from_consensus_stack(Vec<Vec<u8>>): one ByteStr per element
Witness_from_consensus_stack(stack) ==
    [Witness |-> [k \in 1..Len(stack) |-> stack[k]]]

\* Confined::try_from_iter for the input and output lists of bp::Tx
ConfinedMin == 1

Confined_try_from_iter(iter) ==
    IF Len(iter) < ConfinedMin
    THEN Err([error |-> "ConfinementError", kind |-> "Undersize", len |-> Len(iter)])
    ELSE IF Len(iter) > ConfinedMax
    THEN Err([error |-> "ConfinementError", kind |-> "Oversize", len |-> Len(iter)])
    ELSE Ok(iter)

----------------------------------------------------------------------------
(* impl Tx *)

\* (variant: the sequence number is taken from the output index)
TxIn_of_sequence_from_vout(vin) ==
    [prev_output |-> Outpoint_new(vin.txid, vin.vout),
     sig_script  |-> vin.scriptsig,
     sequence    |-> SeqNo_from_consensus_u32(vin.vout),
     witness     |-> Witness_from_consensus_stack(vin.witness)]

TxIn_of(vin) ==
    [prev_output |-> Outpoint_new(vin.txid, vin.vout),
     sig_script  |-> vin.scriptsig,
     sequence    |-> SeqNo_from_consensus_u32(vin.sequence),
     witness     |-> Witness_from_consensus_stack(vin.witness)]

TxOut_of(vout) ==
    [value |-> Sats_from(vout.value), script_pubkey |-> vout.scriptpubkey]

to_tx_with(r, inputs, outputs) ==
    LET cin  == Confined_try_from_iter(inputs)
        cout == Confined_try_from_iter(outputs)
    IN  IF cin.tag = "Err" THEN cin
        ELSE IF cout.tag = "Err" THEN cout
        ELSE Ok([version   |-> TxVer_from_consensus_i32(r.version),
                 lock_time |-> LockTime_from_consensus_u32(r.locktime),
                 inputs    |-> cin.val,
                 outputs   |-> cout.val])

\* (variant: the inputs are collected in reverse order)
to_tx_reversed_inputs(r) ==
    to_tx_with(r,
               [i \in 1..Len(r.vin) |-> TxIn_of(r.vin[Len(r.vin) + 1 - i])],
               [j \in 1..Len(r.vout) |-> TxOut_of(r.vout[j])])

\* (variant: the outputs are stored without the confinement check)
to_tx_unchecked_outputs(r) ==
    LET inputs  == [i \in 1..Len(r.vin) |-> TxIn_of(r.vin[i])]
        outputs == [j \in 1..Len(r.vout) |-> TxOut_of(r.vout[j])]
        cin     == Confined_try_from_iter(inputs)
    IN  IF cin.tag = "Err" THEN cin
        ELSE Ok([version   |-> TxVer_from_consensus_i32(r.version),
                 lock_time |-> LockTime_from_consensus_u32(r.locktime),
                 inputs    |-> cin.val,
                 outputs   |-> outputs])

\* (variant: an input without prevout is rejected)
to_tx_requires_prevout(r) ==
    IF \E i \in 1..Len(r.vin) : ~r.vin[i].prevout.some
    THEN Err([error |-> "MissingPrevout"])
    ELSE to_tx_with(r,
                    [i \in 1..Len(r.vin) |-> TxIn_of(r.vin[i])],
                    [j \in 1..Len(r.vout) |-> TxOut_of(r.vout[j])])

\* (variant: an input without prevout is taken to be a coinbase input, and
\* rejected when the coinbase flag disagrees)
to_tx_infers_coinbase(r) ==
    IF \E i \in 1..Len(r.vin) : r.vin[i].is_coinbase # ~r.vin[i].prevout.some
    THEN Err([error |-> "CoinbaseMismatch"])
    ELSE to_tx_with(r,
                    [i \in 1..Len(r.vin) |-> TxIn_of(r.vin[i])],
                    [j \in 1..Len(r.vout) |-> TxOut_of(r.vout[j])])

to_tx(r) ==
    LET inputs  == [i \in 1..Len(r.vin) |-> TxIn_of(r.vin[i])]
        outputs == [j \in 1..Len(r.vout) |-> TxOut_of(r.vout[j])]
        cin     == Confined_try_from_iter(inputs)
        cout    == Confined_try_from_iter(outputs)
    IN  IF cin.tag = "Err" THEN cin
        ELSE IF cout.tag = "Err" THEN cout
        ELSE Ok([version   |-> TxVer_from_consensus_i32(r.version),
                 lock_time |-> LockTime_from_consensus_u32(r.locktime),
                 inputs    |-> cin.val,
                 outputs   |-> cout.val])

\* (variant: the confirmed flag is not matched)
confirmation_time_ignores_confirmed(r) ==
    IF /\ r.status.block_height.some
       /\ r.status.block_time.some
    THEN Some([timestamp |-> r.status.block_time.val,
               height    |-> r.status.block_height.val])
    ELSE None

confirmation_time(r) ==
    IF /\ r.status.confirmed
       /\ r.status.block_height.some
       /\ r.status.block_time.some
    THEN Some([timestamp |-> r.status.block_time.val,
               height    |-> r.status.block_height.val])
    ELSE None

\* (variant: inputs without prevout are skipped instead of mapped to None)
previous_outputs_skips_missing(r) ==
    LET RECURSIVE keep(_)
        keep(vin) ==
            IF vin = <<>> THEN <<>>
            ELSE IF Head(vin).prevout.some
            THEN <<Some([script_pubkey |-> Head(vin).prevout.val.scriptpubkey,
                         value |-> Sats_from(Head(vin).prevout.val.value)])>>
                 \o keep(Tail(vin))
            ELSE keep(Tail(vin))
    IN  keep(r.vin)

previous_outputs(r) ==
    [i \in 1..Len(r.vin) |->
        IF r.vin[i].prevout.some
        THEN Some([script_pubkey |-> r.vin[i].prevout.val.scriptpubkey,
                   value         |-> Sats_from(r.vin[i].prevout.val.value)])
        ELSE None]

----------------------------------------------------------------------------
(* Input domains *)

PrevOutA == [value |-> 5000, scriptpubkey |-> <<81>>]
PrevOutB == [value |-> 0, scriptpubkey |-> <<>>]

\* (numbers are kept within the 32-bit signed range of the model checker)
\* inputs as the explorer reports them: a coinbase input, spends with and
\* without witness, a pruned (non-coinbase, no prevout) input, and a coinbase
\* flag together with a prevout
VinSamples ==
    { [txid |-> 1, vout |-> 2147483647, prevout |-> None, scriptsig |-> <<0>>,
       witness |-> <<>>, sequence |-> 2147483647, is_coinbase |-> TRUE],
      [txid |-> 1, vout |-> 0, prevout |-> Some(PrevOutA), scriptsig |-> <<>>,
       witness |-> << <<1>>, <<255, 0>> >>, sequence |-> 0, is_coinbase |-> FALSE],
      [txid |-> 2, vout |-> 0, prevout |-> None, scriptsig |-> <<>>,
       witness |-> << <<0>> >>, sequence |-> 2147483646, is_coinbase |-> FALSE],
      [txid |-> 2, vout |-> 1, prevout |-> Some(PrevOutB), scriptsig |-> <<118, 169>>,
       witness |-> <<>>, sequence |-> 1, is_coinbase |-> FALSE],
      [txid |-> 1, vout |-> 1, prevout |-> Some(PrevOutB), scriptsig |-> <<0>>,
       witness |-> << <<>>, <<1>> >>, sequence |-> 0, is_coinbase |-> TRUE],
      [txid |-> 2, vout |-> 2147483647, prevout |-> Some(PrevOutA), scriptsig |-> <<169>>,
       witness |-> << <<255, 0>>, <<1>> >>, sequence |-> 2147483647, is_coinbase |-> FALSE] }

VoutSamples ==
    { [value |-> 2000000000, scriptpubkey |-> <<81>>],
      [value |-> 0, scriptpubkey |-> <<>>] }

\* (version, locktime): i32 and u32 extremes and ordinary values
VersionLocktimes == { <<1, 0>>, <<2, 500000>>, <<-2147483647, 2147483647>> }

StatusUnconfirmed ==
    [confirmed |-> FALSE, block_height |-> None, block_hash |-> None,
     block_time |-> None]
StatusConfirmed ==
    [confirmed |-> TRUE, block_height |-> Some(700000), block_hash |-> Some(7),
     block_time |-> Some(1600000000)]

Heights == {None, Some(0), Some(700000), Some(2147483647)}
Hashes == {None, Some(7), Some(8)}
Times == {None, Some(0), Some(1600000000)}
Statuses ==
    [confirmed : BOOLEAN, block_height : Heights, block_hash : Hashes,
     block_time : Times]

mkTx(vl, vin, vout, status) ==
    [txid |-> 0, version |-> vl[1], locktime |-> vl[2], vin |-> vin,
     vout |-> vout, size |-> 0, weight |-> 0, status |-> status, fee |-> 0]

BuildRecords ==
    { mkTx(vl, vin, vout, StatusUnconfirmed) :
        vl \in VersionLocktimes,
        vin \in SeqsUpTo(VinSamples, MaxVin),
        vout \in SeqsUpTo(VoutSamples, MaxVout) }

StatusRecords ==
    { mkTx(<<1, 0>>, <<>>, <<>>, st) : st \in Statuses }

CallVins ==
    { v \in VinSamples : v.is_coinbase /\ ~v.prevout.some }
CallRecords ==
    { mkTx(<<2, 500000>>, vin, vout, StatusConfirmed) :
        vin \in SeqsUpTo(CallVins, MaxCallVin),
        vout \in SeqsUpTo({[value |-> 0, scriptpubkey |-> <<>>]}, 1) }

\* characters that occur in a wire string; "g" is not a hex digit
WireChars == {"0", "a", "F", "g"}
WireStrings == SeqsUpTo(WireChars, MaxHexLen)
WireWitnesses ==
    { [tag |-> "Absent"], [tag |-> "Null"] }
    \cup { [tag |-> "Present", list |-> l] : l \in SeqsUpTo(WireStrings, MaxWitness) }

----------------------------------------------------------------------------
(* Operations *)

\* serde deserialization of a Tx with one coinbase input whose `witness`
\* field is `wire`, and one output (scriptpubkey "51")
Deserialize ==
    /\ wire # NoWire
    /\ de_result = NotCalled
    /\ LET w == Vin_witness(wire)
       IN  IF w.tag = "Err"
           THEN /\ de_result' = w
                /\ self' = self
           ELSE /\ de_result' = Ok(w.val)
                /\ self' = mkTx(<<1, 0>>,
                               << [txid |-> 0, vout |-> 2147483647, prevout |-> None,
                                   scriptsig |-> from_hex(<<"0", "0">>).val,
                                   witness |-> w.val, sequence |-> 2147483647,
                                   is_coinbase |-> TRUE] >>,
                               << [value |-> 2000000000,
                                   scriptpubkey |-> from_hex(<<"5", "1">>).val] >>,
                               StatusUnconfirmed)
    /\ UNCHANGED <<wire, alt, tx_result, ct_result, po_result, alt_result>>

\* (variant: the inputs are moved out of the record instead of cloned)
Call_to_tx_consuming ==
    /\ self # NoRecord
    /\ tx_result' = to_tx(self)
    /\ self' = [self EXCEPT !.vin = <<>>]
    /\ UNCHANGED <<wire, alt, ct_result, po_result, alt_result, de_result>>

Call_to_tx ==
    /\ self # NoRecord
    /\ tx_result' = to_tx(self)
    /\ UNCHANGED <<wire, self, alt, ct_result, po_result, alt_result, de_result>>

Call_confirmation_time ==
    /\ self # NoRecord
    /\ ct_result' = confirmation_time(self)
    /\ UNCHANGED <<wire, self, alt, tx_result, po_result, alt_result, de_result>>

Call_previous_outputs ==
    /\ self # NoRecord
    /\ po_result' = Returned(previous_outputs(self))
    /\ UNCHANGED <<wire, self, alt, tx_result, ct_result, alt_result, de_result>>

\* the same three methods called on the other record
Call_alt(op) ==
    /\ alt # NoRecord
    /\ alt_result' =
         [op |-> op,
          val |-> CASE op = "to_tx" -> to_tx(alt)
                    [] op = "confirmation_time" -> confirmation_time(alt)
                    [] op = "previous_outputs" -> previous_outputs(alt)]
    /\ UNCHANGED <<wire, self, alt, tx_result, ct_result, po_result, de_result>>

\* the explorer may report the same transaction with other values of the
\* fields to_tx does not read
Vary_prevout(i, p) ==
    /\ alt # NoRecord
    /\ i \in 1..Len(alt.vin)
    /\ alt' = [alt EXCEPT !.vin[i].prevout = p]
    /\ alt_result' = NotCalled
    /\ UNCHANGED <<wire, self, tx_result, ct_result, po_result, de_result>>

Vary_is_coinbase(i) ==
    /\ alt # NoRecord
    /\ i \in 1..Len(alt.vin)
    /\ alt' = [alt EXCEPT !.vin[i].is_coinbase = ~@]
    /\ alt_result' = NotCalled
    /\ UNCHANGED <<wire, self, tx_result, ct_result, po_result, de_result>>

Vary_meta(txid, size, weight, fee) ==
    /\ alt # NoRecord
    /\ alt' = [alt EXCEPT !.txid = txid, !.size = size, !.weight = weight,
                          !.fee = fee]
    /\ alt_result' = NotCalled
    /\ UNCHANGED <<wire, self, tx_result, ct_result, po_result, de_result>>

Vary_status(st) ==
    /\ alt # NoRecord
    /\ alt' = [alt EXCEPT !.status = st]
    /\ alt_result' = NotCalled
    /\ UNCHANGED <<wire, self, tx_result, ct_result, po_result, de_result>>

----------------------------------------------------------------------------
(* Specifications *)

Clean ==
    /\ tx_result = NotCalled
    /\ ct_result = NotCalled
    /\ po_result = NotCalled
    /\ alt_result = NotCalled
    /\ de_result = NotCalled

\* the builder and the previous-output resolver on a deserialized record
Init ==
    /\ wire = NoWire
    /\ self \in BuildRecords
    /\ alt = NoRecord
    /\ Clean

Next ==
    \/ Call_to_tx
    \/ Call_previous_outputs

Spec == Init /\ [][Next]_vars

\* the confirmation extractor over every status
InitStatus ==
    /\ wire = NoWire
    /\ self \in StatusRecords
    /\ alt = NoRecord
    /\ Clean

NextStatus == Call_confirmation_time

SpecStatus == InitStatus /\ [][NextStatus]_vars

\* deserialization of the witness field, then the builder
InitWitness ==
    /\ wire \in WireWitnesses
    /\ self = NoRecord
    /\ alt = NoRecord
    /\ Clean

NextWitness ==
    \/ Deserialize
    \/ Call_to_tx

SpecWitness == InitWitness /\ [][NextWitness]_vars

\* calls in any order on two records that agree on what to_tx reads
MetaValues == {0, 1}

InitCalls ==
    /\ wire = NoWire
    /\ self \in CallRecords
    /\ alt = self
    /\ Clean

NextCalls ==
    \/ Call_to_tx
    \/ Call_confirmation_time
    \/ Call_previous_outputs
    \/ \E op \in {"to_tx", "confirmation_time", "previous_outputs"} : Call_alt(op)
    \/ \E i \in 1..MaxCallVin, p \in {None, Some(PrevOutA)} : Vary_prevout(i, p)
    \/ \E i \in 1..MaxCallVin : Vary_is_coinbase(i)
    \/ \E t, s, w, f \in MetaValues : Vary_meta(t, s, w, f)
    \/ \E st \in {StatusConfirmed, StatusUnconfirmed} : Vary_status(st)

SpecCalls == InitCalls /\ [][NextCalls]_vars

----------------------------------------------------------------------------
(* Properties *)

InBounds(list) == Len(list) >= 1 /\ Len(list) <= ConfinedMax

\* C1: for every record whose vin and vout each have at least one element and
\* at most the protocol maximum, to_tx succeeds and the transaction has as
\* many inputs as vin and as many outputs as vout, input i coming from vin[i]
\* and output j from vout[j], in the same order.
C1_CountAndOrder ==
    (tx_result # NotCalled /\ InBounds(self.vin) /\ InBounds(self.vout)) =>
        /\ tx_result.tag = "Ok"
        /\ Len(tx_result.val.inputs) = Len(self.vin)
        /\ Len(tx_result.val.outputs) = Len(self.vout)
        /\ \A i \in 1..Len(self.vin) :
              /\ tx_result.val.inputs[i].prev_output.txid = self.vin[i].txid
              /\ tx_result.val.inputs[i].prev_output.vout = self.vin[i].vout
              /\ tx_result.val.inputs[i].sig_script = self.vin[i].scriptsig
        /\ \A j \in 1..Len(self.vout) :
              tx_result.val.outputs[j].script_pubkey = self.vout[j].scriptpubkey

C1_Witness ==
    /\ tx_result # NotCalled
    /\ tx_result.tag = "Ok"
    /\ Len(self.vin) = 2 /\ self.vin[1] # self.vin[2]
    /\ Len(self.vout) = 2 /\ self.vout[1] # self.vout[2]

\* C2: to_tx fails with a ConfinementError whenever vin or vout is empty or
\* longer than the protocol maximum, and a failing call returns the error
\* alone, with no transaction value.
C2_ConfinementFailure ==
    tx_result # NotCalled =>
        /\ (~InBounds(self.vin) \/ ~InBounds(self.vout)) =>
              /\ tx_result.tag = "Err"
              /\ tx_result.err.error = "ConfinementError"
        /\ tx_result.tag = "Err" => DOMAIN tx_result = {"tag", "err"}
        /\ tx_result.tag \in {"Ok", "Err"}

C2_Witness ==
    /\ tx_result # NotCalled
    /\ tx_result.tag = "Err"
    /\ Len(self.vin) = 1
    /\ Len(self.vout) = 0

\* C3: confirmation_time returns a BlockTime exactly when confirmed is true
\* and block_height and block_time are both present, carrying that height and
\* that timestamp; otherwise nothing; block_hash does not affect the result.
C3_ConfirmationTime ==
    ct_result # NotCalled =>
        /\ ct_result.some <=>
              (/\ self.status.confirmed
               /\ self.status.block_height.some
               /\ self.status.block_time.some)
        /\ ct_result.some =>
              /\ ct_result.val.height = self.status.block_height.val
              /\ ct_result.val.timestamp = self.status.block_time.val
        /\ \A h \in Hashes :
              confirmation_time([self EXCEPT !.status.block_hash = h]) = ct_result

C3_Witness ==
    /\ ct_result # NotCalled
    /\ ~ct_result.some
    /\ ~self.status.confirmed
    /\ self.status.block_height = Some(700000)
    /\ self.status.block_time = Some(1600000000)
    /\ self.status.block_hash = None

\* C4: previous_outputs returns a list as long as vin whose element i is
\* present exactly when vin[i].prevout is, then with that prevout's value and
\* locking script; it lines up with the inputs built by to_tx, and it returns
\* a list (the empty one) for an empty vin.
C4_PreviousOutputsAligned ==
    po_result # NotCalled =>
        /\ po_result.tag = "Returned"
        /\ Len(po_result.val) = Len(self.vin)
        /\ \A i \in 1..Len(self.vin) :
              /\ po_result.val[i].some <=> self.vin[i].prevout.some
              /\ po_result.val[i].some =>
                    /\ po_result.val[i].val.value.Sats = self.vin[i].prevout.val.value
                    /\ po_result.val[i].val.script_pubkey =
                          self.vin[i].prevout.val.scriptpubkey
        /\ (tx_result # NotCalled /\ tx_result.tag = "Ok") =>
              Len(po_result.val) = Len(tx_result.val.inputs)
        /\ self.vin = <<>> => po_result.val = <<>>

C4_Witness ==
    /\ po_result # NotCalled
    /\ tx_result # NotCalled
    /\ tx_result.tag = "Ok"
    /\ Len(self.vin) = 2
    /\ ~self.vin[1].prevout.some
    /\ self.vin[2].prevout.some

\* C5: a record within the bounds that has a coinbase input without prevout is
\* built successfully by to_tx, and previous_outputs has nothing at that
\* input's position.
C5_CoinbaseWithoutPrevout ==
    \A i \in 1..Len(self.vin) :
        (self.vin[i].is_coinbase /\ ~self.vin[i].prevout.some) =>
            /\ (tx_result # NotCalled /\ InBounds(self.vin) /\ InBounds(self.vout)) =>
                  tx_result.tag = "Ok"
            /\ po_result # NotCalled =>
                  (po_result.tag = "Returned" /\ po_result.val[i] = None)

C5_Witness ==
    /\ tx_result # NotCalled
    /\ tx_result.tag = "Ok"
    /\ po_result # NotCalled
    /\ Len(self.vin) = 2
    /\ self.vin[2].is_coinbase
    /\ ~self.vin[2].prevout.some
    /\ self.vin[1].prevout.some

\* C6: when the witness field of an input is absent from the wire record, the
\* input deserializes with an empty witness list and the input built by to_tx
\* has the empty witness stack.
C6_AbsentWitness ==
    wire = [tag |-> "Absent"] =>
        /\ de_result # NotCalled =>
              (de_result = Ok(<<>>) /\ self # NoRecord /\ self.vin[1].witness = <<>>)
        /\ tx_result # NotCalled =>
              /\ tx_result.tag = "Ok"
              /\ tx_result.val.inputs[1].witness.Witness = <<>>

C6_Witness ==
    /\ wire = [tag |-> "Absent"]
    /\ tx_result # NotCalled
    /\ tx_result.tag = "Ok"
    /\ Len(tx_result.val.inputs) = 1

Malformed(str) ==
    \/ Len(str) % 2 = 1
    \/ \E i \in 1..Len(str) : str[i] \notin HexDigits

\* C7: for a present witness list, if any element has a non-hex character or
\* odd length the deserialization fails with a hex decode error and no record
\* is produced; otherwise it returns the decoded byte strings in the original
\* order and number (the empty string giving the empty byte string).
C7_WitnessDecoding ==
    (wire # NoWire /\ wire.tag = "Present" /\ de_result # NotCalled) =>
        IF \E k \in 1..Len(wire.list) : Malformed(wire.list[k])
        THEN /\ de_result = Err("HexDecodeError")
             /\ self = NoRecord
        ELSE /\ de_result.tag = "Ok"
             /\ Len(de_result.val) = Len(wire.list)
             /\ \A k \in 1..Len(wire.list) :
                   /\ Len(de_result.val[k]) * 2 = Len(wire.list[k])
                   /\ \A m \in 1..Len(de_result.val[k]) :
                         de_result.val[k][m] =
                            16 * HexVal(wire.list[k][2 * m - 1])
                               + HexVal(wire.list[k][2 * m])
             /\ self # NoRecord
             /\ self.vin[1].witness = de_result.val

C7_Witness ==
    /\ wire # NoWire
    /\ wire.tag = "Present"
    /\ wire.list = << <<"a", "F">>, <<"0", "g">> >>
    /\ de_result = Err("HexDecodeError")

\* C8: a call of to_tx, confirmation_time or previous_outputs leaves the
\* record it is called on unchanged, and repeating a call, in any order and
\* interleaved with calls on the other record, returns what it returned
\* before.
C8_Pure ==
    [][ /\ self' = self
        /\ alt_result' # NotCalled => alt' = alt
        /\ tx_result # NotCalled => tx_result' = tx_result
        /\ ct_result # NotCalled => ct_result' = ct_result
        /\ po_result # NotCalled => po_result' = po_result
        /\ (alt_result # NotCalled /\ alt_result' # NotCalled
                /\ alt_result'.op = alt_result.op) => alt_result' = alt_result
      ]_vars

C8_Witness ==
    /\ tx_result # NotCalled
    /\ tx_result.tag = "Ok"
    /\ ct_result # NotCalled
    /\ po_result # NotCalled
    /\ alt_result # NotCalled
    /\ alt # self

\* C9: when to_tx succeeds every field is passed through unchanged: version
\* and lock time; per input the outpoint (txid, vout), the unlocking script,
\* the 32-bit sequence number and the witness stack element for element; per
\* output the value and the locking script.
C9_Verbatim ==
    (tx_result # NotCalled /\ tx_result.tag = "Ok") =>
        /\ tx_result.val.version.TxVer = self.version
        /\ tx_result.val.lock_time.LockTime = self.locktime
        /\ DOMAIN tx_result.val.inputs = DOMAIN self.vin
        /\ DOMAIN tx_result.val.outputs = DOMAIN self.vout
        /\ \A i \in 1..Len(self.vin) :
              /\ tx_result.val.inputs[i].prev_output =
                    [txid |-> self.vin[i].txid, vout |-> self.vin[i].vout]
              /\ tx_result.val.inputs[i].sig_script = self.vin[i].scriptsig
              /\ tx_result.val.inputs[i].sequence.SeqNo = self.vin[i].sequence
              /\ Len(tx_result.val.inputs[i].witness.Witness) = Len(self.vin[i].witness)
              /\ \A k \in 1..Len(self.vin[i].witness) :
                    tx_result.val.inputs[i].witness.Witness[k] = self.vin[i].witness[k]
        /\ \A j \in 1..Len(self.vout) :
              /\ tx_result.val.outputs[j].value.Sats = self.vout[j].value
              /\ tx_result.val.outputs[j].script_pubkey = self.vout[j].scriptpubkey

C9_Witness ==
    /\ tx_result # NotCalled
    /\ tx_result.tag = "Ok"
    /\ self.version = -2147483647
    /\ Len(self.vin) = 2
    /\ Len(self.vin[1].witness) = 2
    /\ self.vin[2].sequence # self.vin[2].vout
    /\ Len(self.vout) = 2

\* what to_tx reads of a record
Relevant(r) ==
    [version |-> r.version, locktime |-> r.locktime, vout |-> r.vout,
     vin |-> [i \in 1..Len(r.vin) |->
                [txid |-> r.vin[i].txid, vout |-> r.vin[i].vout,
                 scriptsig |-> r.vin[i].scriptsig,
                 sequence |-> r.vin[i].sequence,
                 witness |-> r.vin[i].witness]]]

\* C10: two records that differ only in an input's prevout or is_coinbase
\* flag, or in txid, size, weight, status or fee, get the same outcome from
\* to_tx; a non-coinbase input without prevout is accepted.
C10_IrrelevantFields ==
    (/\ tx_result # NotCalled
     /\ alt_result # NotCalled
     /\ alt_result.op = "to_tx"
     /\ Relevant(alt) = Relevant(self)) =>
        /\ alt_result.val = tx_result
        /\ (InBounds(alt.vin) /\ InBounds(alt.vout)) => alt_result.val.tag = "Ok"

C10_Witness ==
    /\ tx_result # NotCalled
    /\ tx_result.tag = "Ok"
    /\ alt_result # NotCalled
    /\ alt_result.op = "to_tx"
    /\ alt_result.val.tag = "Ok"
    /\ Relevant(alt) = Relevant(self)
    /\ Len(alt.vin) = 2
    /\ ~alt.vin[1].is_coinbase /\ ~alt.vin[1].prevout.some
    /\ self.vin[1].is_coinbase
    /\ alt.vin[2].prevout.some /\ ~self.vin[2].prevout.some
    /\ alt.txid # self.txid /\ alt.size # self.size /\ alt.weight # self.weight
    /\ alt.fee # self.fee /\ alt.status # self.status

====
